---------------------------- MODULE Spec2Model ----------------------------
(***************************************************************************)
(* EER Studio: the text <-> model synchronisation engine of                *)
(* src/README.md (parseCode, the debounce effect, updateCodePosition and   *)
(* the mouse handlers of the EERDiagrammer component).                     *)
(*                                                                         *)
(* A Document is the sequence of its lines (code.split('\n'), never        *)
(* empty).  A line is the sequence of its whitespace-separated tokens; a   *)
(* token is a word, a quoted string or one coordinate pair "(x, y)", the   *)
(* text COORD_REGEX matches; a quoted string may itself be the text of a   *)
(* pair.  Node positions in memory are JavaScript                          *)
(* numbers; they are kept in half pixels so that a dragged node can sit    *)
(* at x.5, while the text holds whole pixels.                              *)
(***************************************************************************)
EXTENDS Integers, Sequences, FiniteSets, TLC

VARIABLES code, nodes, links, draggedNodeId, timers, last

vars == <<code, nodes, links, draggedNodeId, timers, last>>

(***************************************************************************)
(* Bounds of the model.                                                    *)
(***************************************************************************)
MaxLines == 2

(***************************************************************************)
(* Tokens.                                                                 *)
(***************************************************************************)
W(s) == [k |-> "w", s |-> s, x |-> 0, y |-> 0]

Q(s) == [k |-> "q", s |-> s, x |-> 0, y |-> 0]

P(px, py) == [k |-> "c", s |-> "", x |-> px, y |-> py]

\* A quoted string whose text is a coordinate pair, as in "(1, 1)".
QP(px, py) ==
  [k |-> "qc", s |-> "(" \o ToString(px) \o ", " \o ToString(py) \o ")",
   x |-> px, y |-> py]

\* JavaScript's undefined: parts[1] of a line with no second token.
Undefined == "<undefined>"

\* `${v}`: a template literal prints undefined as the word.
Template(v) == IF v = Undefined THEN "undefined" ELSE v

\* The text of a token as String.split gives it.
TokStr(t) == IF t.k \in {"q", "qc"} THEN "\"" \o t.s \o "\"" ELSE t.s

\* String.toLowerCase on the words of the model's alphabet.
toLowerCase(s) ==
  CASE s = "ENT" -> "ent"
    [] s = "Link" -> "link"
    [] s = "X" -> "x"
    [] s = "Y" -> "y"
    [] s = "X_1" -> "x_1"
    [] OTHER -> s

RemoveAt(seq, i) == SubSeq(seq, 1, i - 1) \o SubSeq(seq, i + 1, Len(seq))

RECURSIVE FirstPair(_, _)
\* The first index >= i of line whose token holds a coordinate pair, in
\* quotes or not; 0 when none.
FirstPair(line, i) ==
  IF i > Len(line) THEN 0
  ELSE IF line[i].k \in {"c", "qc"} THEN i
  ELSE FirstPair(line, i + 1)

\* line.match(COORD_REGEX): the index of the first coordinate pair, 0 = null.
COORD_REGEX(line) == FirstPair(line, 1)

\* line.replace(COORD_REGEX, ''): a non-global regex, the first match only.
\* Of a quoted pair the two quotes stay.
StripCoord(line) ==
  IF COORD_REGEX(line) = 0 THEN line
  ELSE IF line[COORD_REGEX(line)].k = "c" THEN RemoveAt(line, COORD_REGEX(line))
  ELSE [line EXCEPT ![COORD_REGEX(line)] = Q("")]

\* lineWithoutCoords.split(/\s+/): the remaining tokens as strings.
Parts(line) == [i \in 1..Len(StripCoord(line)) |-> TokStr(StripCoord(line)[i])]

\* parts[i], zero-based as in the source.
Part(parts, i) == IF i + 1 <= Len(parts) THEN parts[i + 1] ELSE Undefined

\* parts[0].toLowerCase(); ''.split(/\s+/) is [''].
Command(parts) == IF Len(parts) = 0 THEN "" ELSE toLowerCase(parts[1])

\* !cleanLine || cleanLine.startsWith('//')
IsSkipped(line) == Len(line) = 0 \/ line[1] = W("//")

(***************************************************************************)
(* getDefaultPos.  angle is 0.6 * k after k calls; the k-th call returns   *)
(* round(400 + cos(0.6k) * (250 + 9k)), round(300 + sin(0.6k) * (250+9k)), *)
(* tabulated (in pixels) for the first eight calls.                        *)
(***************************************************************************)
SpiralTable ==
  << <<614, 446>>, <<497, 550>>, <<337, 570>>, <<189, 493>>,
     <<108, 342>>, <<127, 165>>, <<247, 27>>, <<428, -21>> >>

\* Pixels to the in-memory unit (half pixels).
Px(n) == 2 * n

getDefaultPos(k) == [x |-> Px(SpiralTable[k][1]), y |-> Px(SpiralTable[k][2])]

(***************************************************************************)
(* parseCode, one line at a time.  acc is the state of the pass: newNodes, *)
(* newLinks, existingIds and the number of getDefaultPos calls so far.     *)
(***************************************************************************)
NodeCommands ==
  {"ent", "weak_ent", "rel", "ident_rel",
   "att", "key_att", "derived_att", "multivalued_attribute"}

AttributeCommands == {"att", "key_att", "derived_att", "multivalued_attribute"}

SpecCommands == {"spec", "union"}

\* A final else that takes every other command for a node declaration.
IsNodeCommandElse(command) == command \notin SpecCommands \cup {"link"}

IsNodeCommand(command) == command \in NodeCommands

IsAttribute(command) == command \in AttributeCommands

NodeTypeOf(command) ==
  CASE command = "weak_ent" -> "weak_entity"
    [] command = "rel" -> "relationship"
    [] command = "ident_rel" -> "identifying_relationship"
    [] command = "att" -> "attribute"
    [] command = "key_att" -> "key_attribute"
    [] command = "derived_att" -> "derived_attribute"
    [] command = "multivalued_attribute" -> "multivalued_attribute"
    [] OTHER -> "entity"

\* angle and existingIds kept at module level: a pass starts from what the
\* pass before left.
EmptyAccCarried ==
  [newNodes |-> <<>>, newLinks |-> <<>>,
   existingIds |-> {nodes[k].id : k \in 1..Len(nodes)}, calls |-> Len(nodes)]

\* const newNodes = [], newLinks = [], existingIds = new Set(); let angle = 0
EmptyAcc == [newNodes |-> <<>>, newLinks |-> <<>>, existingIds |-> {}, calls |-> 0]

HasCoords(line) == COORD_REGEX(line) # 0

\* finalX, finalY: the parsed pair, or the next spiral position.
FinalPos(line, acc) ==
  IF HasCoords(line)
  THEN [x |-> Px(line[COORD_REGEX(line)].x), y |-> Px(line[COORD_REGEX(line)].y)]
  ELSE getDefaultPos(acc.calls + 1)

\* getDefaultPos called for every declaration, its result used or not.
CallsAfterAlways(line, acc) == acc.calls + 1

\* getDefaultPos is called only when the line has no coordinates.
CallsAfter(line, acc) == IF HasCoords(line) THEN acc.calls ELSE acc.calls + 1

\* An id that never looks at the allocated ids.
NodeIdNoCollision(command, label, index, existingIds) ==
  IF IsAttribute(command)
  THEN Template(label) \o "_" \o ToString(index)
  ELSE label

\* An id that takes the line index on a collision only.
NodeIdOnCollision(command, label, index, existingIds) ==
  IF label \in existingIds
  THEN Template(label) \o "_" \o ToString(index)
  ELSE label

\* let id = label; if (isAttribute || existingIds.has(id)) id = `${label}_${index}`
NodeId(command, label, index, existingIds) ==
  IF IsAttribute(command) \/ label \in existingIds
  THEN Template(label) \o "_" \o ToString(index)
  ELSE label

\* A shorthand link that points at the label in the place of the id.
ShorthandLinksLabel(parts, id, style) ==
  IF Part(parts, 2) = "->" /\ Part(parts, 3) # Undefined
  THEN << [source |-> Part(parts, 3), target |-> Part(parts, 1),
           label |-> "", style |-> style] >>
  ELSE <<>>

\* The shorthand link: parts[2] === '->' && parts[3]
ShorthandLinks(parts, id, style) ==
  IF Part(parts, 2) = "->" /\ Part(parts, 3) # Undefined
  THEN << [source |-> Part(parts, 3), target |-> id, label |-> "", style |-> style] >>
  ELSE <<>>

NodeLine(line, index, acc) ==
  LET parts == Parts(line)
      command == Command(parts)
      label == Part(parts, 1)
      id == NodeId(command, label, index, acc.existingIds)
      pos == FinalPos(line, acc)
  IN  [newNodes |-> Append(acc.newNodes,
                      [id |-> id, type |-> NodeTypeOf(command), label |-> label,
                       x |-> pos.x, y |-> pos.y, meta |-> Undefined,
                       lineIndex |-> index]),
       newLinks |-> acc.newLinks \o ShorthandLinks(parts, id, "solid"),
       existingIds |-> acc.existingIds \cup {id},
       calls |-> CallsAfter(line, acc)]

\* let id = parts[1] || `spec_${index}`; if (existingIds.has(id)) id = `${id}_${index}`
SpecId(parts, index, existingIds) ==
  LET id == IF Part(parts, 1) # Undefined THEN Part(parts, 1)
            ELSE "spec_" \o ToString(index)
  IN  IF id \in existingIds THEN id \o "_" \o ToString(index) ELSE id

\* parts[1] || (command === 'union' ? 'u' : 'd')
SpecMeta(parts, command) ==
  IF Part(parts, 1) # Undefined THEN Part(parts, 1)
  ELSE IF command = "union" THEN "u" ELSE "d"

SpecLine(line, index, acc) ==
  LET parts == Parts(line)
      command == Command(parts)
      meta == SpecMeta(parts, command)
      id == SpecId(parts, index, acc.existingIds)
      pos == FinalPos(line, acc)
  IN  [newNodes |-> Append(acc.newNodes,
                      [id |-> id,
                       type |-> IF command = "union" THEN "union" ELSE "specialization",
                       label |-> meta, x |-> pos.x, y |-> pos.y, meta |-> meta,
                       lineIndex |-> index]),
       newLinks |-> acc.newLinks \o ShorthandLinks(parts, id, "double"),
       existingIds |-> acc.existingIds \cup {id},
       calls |-> CallsAfter(line, acc)]

\* lineWithoutCoords.match(/"([^"]+)"/): the first quoted string of one
\* character or more, '' when none.
LinkLabel(line) ==
  LET quoted == SelectSeq(StripCoord(line), LAMBDA t : t.k \in {"q", "qc"} /\ t.s # "")
  IN  IF Len(quoted) = 0 THEN "" ELSE quoted[1].s

\* includes('[total]') || includes('[double]')
LinkStyle(parts) ==
  IF \E i \in 1..Len(parts) : parts[i] \in {"[total]", "[double]"}
  THEN "double" ELSE "solid"

\* A link branch that keeps a link only when both ends are allocated ids.
LinkLineResolved(line, index, acc) ==
  LET parts == Parts(line)
      source == Part(parts, 1)
      target == Part(parts, 2)
  IN  IF source \in acc.existingIds /\ target \in acc.existingIds
      THEN [acc EXCEPT !.newLinks =
              Append(@, [source |-> source, target |-> target,
                         label |-> LinkLabel(line), style |-> LinkStyle(parts)])]
      ELSE acc

\* A link branch without the test `if (source && target)`.
LinkLineUnchecked(line, index, acc) ==
  [acc EXCEPT !.newLinks =
     Append(@, [source |-> Part(Parts(line), 1), target |-> Part(Parts(line), 2),
                label |-> LinkLabel(line), style |-> LinkStyle(Parts(line))])]

LinkLine(line, index, acc) ==
  LET parts == Parts(line)
      source == Part(parts, 1)
      target == Part(parts, 2)
  IN  IF source # Undefined /\ target # Undefined
      THEN [acc EXCEPT !.newLinks =
              Append(@, [source |-> source, target |-> target,
                         label |-> LinkLabel(line), style |-> LinkStyle(parts)])]
      ELSE acc

\* The body of lines.forEach((line, index) => ...), index zero-based.
ParseLine(line, index, acc) ==
  IF IsSkipped(line) THEN acc
  ELSE IF IsNodeCommand(Command(Parts(line))) THEN NodeLine(line, index, acc)
  ELSE IF Command(Parts(line)) \in SpecCommands THEN SpecLine(line, index, acc)
  ELSE IF Command(Parts(line)) = "link" THEN LinkLine(line, index, acc)
  ELSE acc

RECURSIVE ParseFrom(_, _, _)
ParseFrom(lines, i, acc) ==
  IF i > Len(lines) THEN acc
  ELSE ParseFrom(lines, i + 1, ParseLine(lines[i], i - 1, acc))

\* angle, existingIds, newNodes and newLinks are locals of the call.
parseCode(text) ==
  LET acc == ParseFrom(text, 1, EmptyAcc)
  IN  [nodes |-> acc.newNodes, links |-> acc.newLinks]

(***************************************************************************)
(* renderLinks: the links drawn, as indices of links.  A link is skipped   *)
(* when nodes.find gives undefined for its source or its target.           *)
(***************************************************************************)
RECURSIVE FindFrom(_, _, _)
FindFrom(ns, i, id) ==
  IF i > Len(ns) THEN 0
  ELSE IF ns[i].id = id THEN i
  ELSE FindFrom(ns, i + 1, id)

\* nodes.find(n => n.id === id): the index of the first such node, 0 = undefined.
find(ns, id) == FindFrom(ns, 1, id)

\* A renderer that draws every link of the list.
renderLinksAll(ns, ls) == 1..Len(ls)

renderLinks(ns, ls) ==
  {i \in 1..Len(ls) : ~(find(ns, ls[i].source) = 0 \/ find(ns, ls[i].target) = 0)}

(***************************************************************************)
(* updateCodePosition.                                                     *)
(***************************************************************************)
\* Math.floor in the place of Math.round.
roundDown(h) == h \div 2

\* Math.round of h half pixels: floor(h/2 + 1/2), halves go up.
round(h) == (h + 1) \div 2

\* A rewritten line that keeps the command and the label only.
WriteLineHead(line, newX, newY) ==
  Append(IF Len(StripCoord(line)) > 2 THEN SubSeq(StripCoord(line), 1, 2)
         ELSE StripCoord(line),
         P(round(newX), round(newY)))

\* The rewritten line: the first coordinate pair removed, trimEnd, then
\* ` (${Math.round(newX)}, ${Math.round(newY)})` appended.
WriteLine(line, newX, newY) ==
  Append(StripCoord(line), P(round(newX), round(newY)))

\* lineIndex >= 0 && lineIndex < lines.length
InRange(lineIndex, text) == lineIndex >= 0 /\ lineIndex < Len(text)

\* updateCodePosition indexing lines from one: lines[lineIndex - 1].
updateCodePositionOffByOne(ns, text, nodeId, newX, newY) ==
  IF find(ns, nodeId) = 0 THEN text
  ELSE IF InRange(ns[find(ns, nodeId)].lineIndex, text)
  THEN IF ns[find(ns, nodeId)].lineIndex = 0 THEN text
       ELSE [text EXCEPT ![ns[find(ns, nodeId)].lineIndex] = WriteLine(@, newX, newY)]
  ELSE text

\* updateCodePosition clamping a stale index to the last line.
updateCodePositionClamped(ns, text, nodeId, newX, newY) ==
  IF find(ns, nodeId) = 0 THEN text
  ELSE IF ns[find(ns, nodeId)].lineIndex >= 0
  THEN LET at == IF InRange(ns[find(ns, nodeId)].lineIndex, text)
                 THEN ns[find(ns, nodeId)].lineIndex + 1 ELSE Len(text)
       IN  [text EXCEPT ![at] = WriteLine(@, newX, newY)]
  ELSE text

\* The text handed to setCode, or the text as it is when nothing is done.
updateCodePosition(ns, text, nodeId, newX, newY) ==
  IF find(ns, nodeId) = 0 THEN text
  ELSE IF InRange(ns[find(ns, nodeId)].lineIndex, text)
  THEN [text EXCEPT ![ns[find(ns, nodeId)].lineIndex + 1] = WriteLine(@, newX, newY)]
  ELSE text

(***************************************************************************)
(* The component's state and its handlers.                                 *)
(***************************************************************************)
Null == "<null>"

\* if (draggedNodeId): null, undefined and '' are falsy.
Truthy(v) == v \notin {Null, Undefined, ""}

EditLines ==
  { <<W("ent"), W("X")>>,
    <<W("link"), W("X"), W("Y")>> }

\* The texts typed, loaded or set: every Document of 1..MaxLines lines.
EditDocs == UNION {[1..n -> EditLines] : n \in 1..MaxLines}

\* Pointer positions of a drag, in half pixels: (0.5, -1.5) and (1, -1).
Points == { <<1, -3>>, <<2, -2>> }

NoWb == [id |-> Null, line |-> -1, x |-> 0, y |-> 0]

\* An effect that returns no cleanup.
CleanupNone(ts, oldCode) == ts

\* timers: the pending timers, each the text its callback captured, in the
\* order they were set.  The cleanup of the effect's previous run is
\* clearTimeout of the timer that run set, the one that captured the old text.
Cleanup(ts, oldCode) == SelectSeq(ts, LAMBDA t : t # oldCode)

\* An effect that runs after every setCode, the text changed or not.
EffectTimersAlways(newCode) == Append(Cleanup(timers, code), newCode)

\* useEffect(() => { timer = setTimeout(parse, 300); return clear }, [code]):
\* runs after a render in which code changed.
EffectTimers(newCode) ==
  IF newCode = code THEN timers
  ELSE Append(Cleanup(timers, code), newCode)

\* setInterval in the place of setTimeout: the timer stays pending.
FiredInterval(ts, i) == ts

\* setTimeout is one-shot: the timer that fired is pending no more.
Fired(ts, i) == RemoveAt(ts, i)

\* The text the component mounts with; one declaration of the sample's form
\* `ent <LABEL> (x, y)` stands for it.
SAMPLE_CODE == << <<W("ent"), W("X"), P(0, 0)>> >>

Init ==
  /\ code = SAMPLE_CODE
  /\ nodes = <<>>
  /\ links = <<>>
  /\ draggedNodeId = Null
  /\ timers = << SAMPLE_CODE >>
  /\ last = [op |-> "init", wb |-> NoWb]

\* setCode(c): onChange of the textarea, a file opened, the imperative handle.
\* Setting the text it already has re-runs no effect.
SetCode(c) ==
  /\ c # code
  /\ code' = c
  /\ timers' = EffectTimers(c)
  /\ last' = [op |-> "edit", wb |-> NoWb]
  /\ UNCHANGED <<nodes, links, draggedNodeId>>

\* The timer's callback: parseCode of the text its effect captured.
TimerFire(i) ==
  /\ i \in 1..Len(timers)
  /\ nodes' = parseCode(timers[i]).nodes
  /\ links' = parseCode(timers[i]).links
  /\ timers' = Fired(timers, i)
  /\ last' = [op |-> "parse",
              wb |-> IF last.op = "up_write" THEN last.wb ELSE NoWb]
  /\ UNCHANGED <<code, draggedNodeId>>

handleMouseDown(id) ==
  /\ \E i \in 1..Len(nodes) : nodes[i].id = id
  /\ draggedNodeId' = id
  /\ last' = [op |-> "down", wb |-> NoWb]
  /\ UNCHANGED <<code, nodes, links, timers>>

\* The pan branch (no node dragged) changes the viewport only.
handleMouseMove(p) ==
  /\ Truthy(draggedNodeId)
  /\ nodes' = [i \in 1..Len(nodes) |->
                 IF nodes[i].id = draggedNodeId
                 THEN [nodes[i] EXCEPT !.x = p[1], !.y = p[2]]
                 ELSE nodes[i]]
  /\ last' = [op |-> "move", wb |-> NoWb]
  /\ UNCHANGED <<code, links, draggedNodeId, timers>>

\* What handleMouseUp hands to setCode through updateCodePosition.
ReleasedCode ==
  IF find(nodes, draggedNodeId) = 0 THEN code
  ELSE updateCodePosition(nodes, code, nodes[find(nodes, draggedNodeId)].id,
                          nodes[find(nodes, draggedNodeId)].x,
                          nodes[find(nodes, draggedNodeId)].y)

ReleaseOutcome ==
  IF find(nodes, draggedNodeId) = 0 THEN "up_gone"
  ELSE IF ~InRange(nodes[find(nodes, draggedNodeId)].lineIndex, code) THEN "up_stale"
  ELSE IF ReleasedCode = code THEN "up_same"
  ELSE "up_write"

\* History for the properties: the release that edited the text, with the
\* node's id, its lineIndex and its position in memory at the release.
ReleaseWb ==
  IF ReleaseOutcome # "up_write" THEN NoWb
  ELSE [id |-> draggedNodeId,
        line |-> nodes[find(nodes, draggedNodeId)].lineIndex,
        x |-> nodes[find(nodes, draggedNodeId)].x,
        y |-> nodes[find(nodes, draggedNodeId)].y]

\* onMouseUp and onMouseLeave of the canvas, with a node being dragged.
handleMouseUp ==
  /\ Truthy(draggedNodeId)
  /\ code' = ReleasedCode
  /\ timers' = EffectTimers(ReleasedCode)
  /\ draggedNodeId' = Null
  /\ last' = [op |-> ReleaseOutcome, wb |-> ReleaseWb]
  /\ UNCHANGED <<nodes, links>>

Next ==
  \/ \E c \in EditDocs : SetCode(c)
  \/ \E i \in 1..Len(timers) : TimerFire(i)
  \/ \E id \in {nodes[i].id : i \in 1..Len(nodes)} : handleMouseDown(id)
  \/ \E p \in Points : handleMouseMove(p)
  \/ handleMouseUp

Spec == Init /\ [][Next]_vars

\* A timer step; one is enabled exactly when a timer is pending.
TimerStep == \E i \in 1..Len(timers) : TimerFire(i)

\* The browser runs the callback of a timer that is not cleared: weak
\* fairness of TimerStep, written out with Len(timers) > 0 for
\* ENABLED <<TimerStep>>_vars.
FairSpec ==
  Spec /\ ([]<>(Len(timers) = 0) \/ []<><<TimerStep>>_vars)

(***************************************************************************)
(* The parser and the write-back on their own: the component mounted on    *)
(* any Document of 1..MaxLines lines of ParseLines, its first parse, one    *)
(* drag of one of its nodes and the parse that follows the release.        *)
(***************************************************************************)
ParseLines ==
  { <<>>,
    <<W("//"), W("X")>>,
    <<W("foo"), W("X")>>,
    <<P(1, 2)>>,
    <<W("ent"), W("X")>>,
    <<W("ent"), W("X_1")>>,
    <<W("ENT"), W("Y")>>,
    <<W("ent"), W("X"), P(1, 2)>>,
    <<W("ent"), W("Y"), P(1, 2), P(3, 4)>>,
    <<W("att")>>,
    <<W("att"), W("X")>>,
    <<W("att"), W("X"), W("->"), W("Y")>>,
    <<W("multivalued_att"), W("X"), W("->"), W("Y"), P(3, 4)>>,
    <<W("spec")>>,
    <<W("spec"), W("d"), W("->"), W("X")>>,
    <<W("union"), W("->"), W("X")>>,
    <<W("link"), W("X"), W("Y")>>,
    <<W("link"), W("G"), W("X"), Q("N"), W("[total]")>>,
    <<W("link"), W("X")>> }

ParseDocs == UNION {[1..n -> ParseLines] : n \in 1..MaxLines}

InitParse ==
  /\ code \in ParseDocs
  /\ nodes = <<>>
  /\ links = <<>>
  /\ draggedNodeId = Null
  /\ timers = << code >>
  /\ last = [op |-> "init", wb |-> NoWb]

\* A node grabbed right after the first parse.
FirstMouseDown(id) ==
  /\ last = [op |-> "parse", wb |-> NoWb]
  /\ handleMouseDown(id)

NextParse ==
  \/ \E i \in 1..Len(timers) : TimerFire(i)
  \/ \E id \in {nodes[i].id : i \in 1..Len(nodes)} : FirstMouseDown(id)
  \/ \E p \in Points : handleMouseMove(p)
  \/ handleMouseUp

SpecParse == InitParse /\ [][NextParse]_vars

(***************************************************************************)
(* Properties.                                                             *)
(***************************************************************************)
\* A step of handleMouseUp with a node being dragged: the only step that
\* resets draggedNodeId.
Release == Truthy(draggedNodeId) /\ draggedNodeId' = Null

\* The node the release finds, as an index of nodes (0: none).
Dragged == find(nodes, draggedNodeId)

\* C1: the nodes of one parseCode pass have pairwise distinct ids.
C1_IdsDistinct ==
  \A i, j \in 1..Len(nodes) : i # j => nodes[i].id # nodes[j].id

\* C2: a write-back with an in-range line index leaves the number of lines
\* and every other line as they were; the line at that index becomes the
\* old line without its first coordinate pair, followed by the new pair.
C2_WriteBackOneLine ==
  [][(Release /\ Dragged # 0 /\ InRange(nodes[Dragged].lineIndex, code))
       => /\ Len(code') = Len(code)
          /\ \A j \in 1..Len(code) :
               j # nodes[Dragged].lineIndex + 1 => code'[j] = code[j]
          /\ LET old == code[nodes[Dragged].lineIndex + 1]
                 new == code'[nodes[Dragged].lineIndex + 1]
             IN  /\ Len(new) >= 1
                 /\ new[Len(new)].k = "c"
                 /\ SubSeq(new, 1, Len(new) - 1) = StripCoord(old)]_vars

\* A release has rewritten one line of a Document of several lines.
C2_Witness == last.op = "up_write" /\ Len(code) >= 2 /\ last.wb.line >= 1

\* C3: a write-back only ever rewrites the line that declares the dragged
\* node in the current Document.
C3_WriteBackOwnLine ==
  [][Release =>
       \A j \in 1..Len(code) :
         (j <= Len(code') /\ code'[j] # code[j]) =>
           \E k \in 1..Len(parseCode(code).nodes) :
             /\ parseCode(code).nodes[k].id = draggedNodeId
             /\ parseCode(code).nodes[k].lineIndex = j - 1]_vars

\* C4: with the dragged node's lineIndex out of range the release changes
\* neither the Document nor the pending timers, and the handler completes.
C4_StaleNoOp ==
  /\ [][(Release /\ Dragged # 0 /\ ~InRange(nodes[Dragged].lineIndex, code))
          => (code' = code /\ timers' = timers)]_vars
  /\ [](Truthy(draggedNodeId) => ENABLED handleMouseUp)

\* A release found its node's lineIndex beyond the last line.
C4_Witness == last.op = "up_stale"

\* v (half pixels) is the whole pixel nearest to h, a half going up.
IsNearest(v, h) == v % 2 = 0 /\ v - 1 <= h /\ h < v + 1

NumPairs(line) == Cardinality({j \in 1..Len(line) : line[j].k = "c"})

\* The node of the last write-back is in nodes, on the line written, at the
\* rounded position.
WrittenNodeParsed ==
  \E i \in 1..Len(nodes) :
    /\ nodes[i].id = last.wb.id
    /\ nodes[i].lineIndex = last.wb.line
    /\ IsNearest(nodes[i].x, last.wb.x)
    /\ IsNearest(nodes[i].y, last.wb.y)

\* The parse that follows a write-back has run.
Reparsed == last.op = "parse" /\ last.wb # NoWb

Rewritten(old, new, hx, hy) ==
  /\ Len(new) >= 1
  /\ new[Len(new)].k = "c"
  /\ IsNearest(2 * new[Len(new)].x, hx)
  /\ IsNearest(2 * new[Len(new)].y, hy)
  /\ SubSeq(new, 1, Len(new) - 1) = StripCoord(old)

\* C6 as stated: every release edits the Document and schedules exactly
\* one parse of the result.
C6_ReleaseEdits == [][Release => (code' # code /\ timers' = <<code'>>)]_vars

\* C6 amended: a release rewrites the dragged node's line when the node is
\* found and its lineIndex is in range, and nothing otherwise; when the
\* text changed exactly one parse of it is pending afterwards, and when it
\* did not the pending timers are as they were.
C6_ReleaseWritesOnce ==
  [][Release =>
       /\ IF Dragged # 0 /\ InRange(nodes[Dragged].lineIndex, code)
          THEN /\ Len(code') = Len(code)
               /\ \A j \in 1..Len(code) :
                    j # nodes[Dragged].lineIndex + 1 => code'[j] = code[j]
               /\ Rewritten(code[nodes[Dragged].lineIndex + 1],
                            code'[nodes[Dragged].lineIndex + 1],
                            nodes[Dragged].x, nodes[Dragged].y)
          ELSE code' = code
       /\ IF code' # code THEN timers' = <<code'>> ELSE timers' = timers]_vars

\* A node dropped off the pixel grid at a position that rounds to the pair
\* its line already holds.
C6_Witness ==
  /\ last.op = "up_same"
  /\ \E i \in 1..Len(nodes) : nodes[i].x % 2 = 1

\* C7: at most one timer is pending and it captured the current text; a
\* change of the text leaves exactly the timer of the new text pending;
\* a timer that fires parses the text the Document has at that moment.
C7_Debounce ==
  /\ [](Len(timers) <= 1 /\ \A i \in 1..Len(timers) : timers[i] = code)
  /\ [][code' # code => timers' = <<code'>>]_vars
  /\ [][Len(timers') < Len(timers) =>
          (nodes' = parseCode(code).nodes /\ links' = parseCode(code).links)]_vars

\* The text was changed before the timer of the mount fired.
C7_Witness == last.op = "edit" /\ nodes = <<>> /\ timers = <<code>>

\* C8: if the text stops changing, then from some point on no timer is
\* pending; and the timer that fires replaces nodes and links by the parse
\* of the Document.
C8_EventuallyParsed ==
  /\ (<>[][code' = code]_vars) => <>[](Len(timers) = 0)
  /\ [][Len(timers') < Len(timers) =>
          (nodes' = parseCode(code').nodes /\ links' = parseCode(code').links)]_vars

\* An edited text has been parsed and nothing is pending.
C8_Witness ==
  /\ last.op = "parse"
  /\ code # SAMPLE_CODE
  /\ timers = <<>>
  /\ nodes = parseCode(code).nodes
  /\ links = parseCode(code).links

RecognizedCommands ==
  {"ent", "weak_ent", "rel", "ident_rel", "att", "key_att", "derived_att",
   "multivalued_attribute", "spec", "union", "link"}

\* A line that is neither blank nor a comment and whose first token, the
\* coordinate pair aside, is no recognized command.
Unrecognized(line) ==
  /\ Len(line) > 0
  /\ line[1] # W("//")
  /\ LET rest == SelectSeq(line, LAMBDA t : t.k # "c")
     IN  Len(rest) = 0 \/ toLowerCase(TokStr(rest[1])) \notin RecognizedCommands

\* C9: an unrecognized line gives no node, and the parse of the Document
\* is the parse of the Document with a blank line, or a comment, in its
\* place.
C9_Leniency ==
  \A i \in 1..Len(code) :
    Unrecognized(code[i]) =>
      /\ \A k \in 1..Len(parseCode(code).nodes) :
           parseCode(code).nodes[k].lineIndex # i - 1
      /\ parseCode(code) = parseCode([code EXCEPT ![i] = <<>>])
      /\ parseCode(code) = parseCode([code EXCEPT ![i] = <<W("//"), W("X")>>])

\* A parsed Document with an unrecognized first line and a node after it.
C9_Witness ==
  /\ last.op = "parse"
  /\ Unrecognized(code[1])
  /\ nodes = parseCode(code).nodes
  /\ \E k \in 1..Len(nodes) : nodes[k].lineIndex = 1

\* A link statement with its two identifier tokens.
IsLinkStatement(line) ==
  /\ Len(line) > 0
  /\ line[1] # W("//")
  /\ LET rest == SelectSeq(line, LAMBDA t : t.k # "c")
     IN  Len(rest) >= 3 /\ toLowerCase(TokStr(rest[1])) = "link"

NodeIds(ns) == {ns[k].id : k \in 1..Len(ns)}

\* C10: a link statement with both identifiers adds one link from the one
\* to the other and no node, whatever the ids of the Document's nodes;
\* renderLinks skips exactly the links with an end that is no node's id.
C10_DanglingLinks ==
  /\ \A i \in 1..Len(code) :
       IsLinkStatement(code[i]) =>
         LET with == parseCode(code)
             without == parseCode([code EXCEPT ![i] = <<>>])
             rest == SelectSeq(code[i], LAMBDA t : t.k # "c")
         IN  /\ with.nodes = without.nodes
             /\ Len(with.links) = Len(without.links) + 1
             /\ \E k \in 1..Len(with.links) :
                  /\ with.links[k].source = TokStr(rest[2])
                  /\ with.links[k].target = TokStr(rest[3])
                  /\ without.links =
                       SubSeq(with.links, 1, k - 1)
                         \o SubSeq(with.links, k + 1, Len(with.links))
  /\ renderLinks(nodes, links) =
       {k \in 1..Len(links) :
          links[k].source \in NodeIds(nodes) /\ links[k].target \in NodeIds(nodes)}

\* A parsed Document with a link to an undeclared id: the link is kept,
\* no node has that id, and renderLinks skips the link.
C10_Witness ==
  /\ last.op = "parse"
  /\ \E k \in 1..Len(links) :
       /\ links[k].source = "G"
       /\ "G" \notin NodeIds(nodes)
       /\ links[k].target \in NodeIds(nodes)
       /\ k \notin renderLinks(nodes, links)

(***************************************************************************)
(* parseCode on its own: the component mounted on any Document of          *)
(* 1..MaxLines lines of DslLines, and the first parse of it.               *)
(***************************************************************************)
DslLines ==
  ParseLines \cup
  { <<W("ent")>>,
    <<W("ent"), W("spec_1")>>,
    <<W("rel"), W("Y"), P(5, 6)>>,
    <<W("weak_ent"), W("X"), W("->"), W("Y")>>,
    <<W("key_att"), W("X")>>,
    <<W("multivalued_attribute"), W("X"), W("->"), W("Y"), P(3, 4)>>,
    <<W("union")>>,
    <<W("spec"), W("->"), W("X")>>,
    <<W("link"), W("Y"), W("X"), W("[double]")>>,
    <<W("Link"), W("Y"), W("G"), Q("N")>>,
    <<W("link"), W("X"), W("Y"), QP(1, 1)>>,
    <<W("link")>> }

DslDocs == UNION {[1..n -> DslLines] : n \in 1..MaxLines}

InitDsl ==
  /\ code \in DslDocs
  /\ nodes = <<>>
  /\ links = <<>>
  /\ draggedNodeId = Null
  /\ timers = << code >>
  /\ last = [op |-> "init", wb |-> NoWb]

NextDsl == \E i \in 1..Len(timers) : TimerFire(i)

SpecDsl == InitDsl /\ [][NextDsl]_vars

\* A line that pushes a link: a link statement with its two identifiers,
\* or a declaration with the shorthand `-> OWNER`.
AddsLink(line) ==
  /\ ~IsSkipped(line)
  /\ LET parts == Parts(line)
     IN  \/ Command(parts) = "link" /\ Len(parts) >= 3
         \/ /\ Command(parts) \in NodeCommands \cup SpecCommands
            /\ Len(parts) >= 4
            /\ parts[3] = "->"

\* C11 as stated: every link of the parse result has both of its ends
\* among the ids of the nodes of that parse.
C11_LinksResolved ==
  \A k \in 1..Len(links) :
    links[k].source \in NodeIds(nodes) /\ links[k].target \in NodeIds(nodes)

\* C11 amended: the parse result holds one link for every line that pushes
\* one, its ends declared or not; the links renderLinks draws are the ones
\* that have both ends among the ids of the nodes.
C11_LinksKept ==
  /\ Len(parseCode(code).links)
       = Cardinality({i \in 1..Len(code) : AddsLink(code[i])})
  /\ last.op = "parse" => links = parseCode(code).links
  /\ \A k \in renderLinks(nodes, links) :
       links[k].source \in NodeIds(nodes) /\ links[k].target \in NodeIds(nodes)

\* A parsed Document whose shorthand link names an owner that is no node:
\* the link is in the result and is not drawn.
C11_Witness ==
  /\ last.op = "parse"
  /\ \E k \in 1..Len(links) :
       /\ links[k].style = "solid"
       /\ links[k].label = ""
       /\ links[k].source \notin NodeIds(nodes)
       /\ links[k].target \in NodeIds(nodes)
       /\ k \notin renderLinks(nodes, links)

AttributeTypes ==
  {"attribute", "key_attribute", "derived_attribute", "multivalued_attribute"}

\* C12: every attribute-kind node of a parse has the id label_lineIndex,
\* and two attribute-kind nodes of one parse never have the same id.
C12_AttributeIds ==
  LET ns == parseCode(code).nodes
  IN  /\ \A i \in 1..Len(ns) :
           ns[i].type \in AttributeTypes =>
             ns[i].id = Template(ns[i].label) \o "_" \o ToString(ns[i].lineIndex)
      /\ \A i, j \in 1..Len(ns) :
           (i # j /\ ns[i].type \in AttributeTypes /\ ns[j].type \in AttributeTypes)
             => ns[i].id # ns[j].id

\* A parsed Document with two attribute declarations of one label, of
\* different kinds or owners.
C12_Witness ==
  /\ last.op = "parse"
  /\ \E i, j \in 1..Len(nodes) :
       /\ i # j
       /\ nodes[i].type \in AttributeTypes
       /\ nodes[j].type \in AttributeTypes
       /\ nodes[i].label = nodes[j].label
       /\ nodes[i].id # nodes[j].id

\* The state a parse starts from: nothing placed, no id allocated.
FreshAcc == [newNodes |-> <<>>, newLinks |-> <<>>, existingIds |-> {}, calls |-> 0]

\* C13: whatever was parsed before, the nodes and links a parse leaves are
\* the ones a pass over its text gives from a fresh spiral angle and an
\* empty set of ids; two parses of one text give the same result.
C13_Deterministic ==
  last.op = "parse" =>
    /\ nodes = ParseFrom(code, 1, FreshAcc).newNodes
    /\ links = ParseFrom(code, 1, FreshAcc).newLinks

\* The parse after a write-back to line 0: the node of line 1 is placed at
\* the first spiral position, which the node of line 0 had in the parse
\* before, and the node of line 0 has its id again.
C13_Witness ==
  /\ Reparsed
  /\ last.wb.line = 0
  /\ \E k \in 1..Len(nodes) :
       /\ nodes[k].lineIndex = 1
       /\ nodes[k].x = getDefaultPos(1).x
       /\ nodes[k].y = getDefaultPos(1).y
  /\ \E k \in 1..Len(nodes) : nodes[k].lineIndex = 0 /\ nodes[k].id = last.wb.id

\* A line `multivalued_att <LABEL> -> <OWNER> (x, y)`.
IsMultivaluedAtt(line) ==
  /\ Len(line) = 5
  /\ line[1] = W("multivalued_att")
  /\ line[2].k = "w"
  /\ line[3] = W("->")
  /\ line[4].k = "w"
  /\ line[5].k = "c"

\* C14: a line `multivalued_att <LABEL> -> <OWNER> (x, y)` gives one node
\* of type multivalued_attribute at (x, y) and one link from OWNER to it.
C14_MultivaluedAtt ==
  \A i \in 1..Len(code) :
    IsMultivaluedAtt(code[i]) =>
      \E k \in 1..Len(parseCode(code).nodes) :
        LET n == parseCode(code).nodes[k]
        IN  /\ n.lineIndex = i - 1
            /\ n.type = "multivalued_attribute"
            /\ n.label = code[i][2].s
            /\ n.x = Px(code[i][5].x)
            /\ n.y = Px(code[i][5].y)
            /\ \E l \in 1..Len(parseCode(code).links) :
                 /\ parseCode(code).links[l].source = code[i][4].s
                 /\ parseCode(code).links[l].target = n.id

NodeTypes ==
  {"entity", "weak_entity", "relationship", "identifying_relationship",
   "specialization", "union"} \cup AttributeTypes

\* A link statement with fewer than two identifier tokens.
IsShortLink(line) ==
  /\ Len(line) > 0
  /\ line[1] # W("//")
  /\ LET rest == SelectSeq(line, LAMBDA t : t.k # "c")
     IN  Len(rest) \in 1..2 /\ toLowerCase(TokStr(rest[1])) = "link"

\* C15: for every Document parseCode returns a list of nodes and a list of
\* links, at most one node per line, each on a line of the Document; a
\* Document of blank and comment lines gives two empty lists; a link
\* statement that lacks its source or its target gives no link.
C15_Total ==
  LET r == parseCode(code)
  IN  /\ DOMAIN r = {"nodes", "links"}
      /\ Len(r.nodes) <= Len(code)
      /\ Len(r.links) <= Len(code)
      /\ \A k \in 1..Len(r.nodes) :
           /\ r.nodes[k].lineIndex \in 0..(Len(code) - 1)
           /\ r.nodes[k].type \in NodeTypes
           /\ r.nodes[k].x \in Int
           /\ r.nodes[k].y \in Int
      /\ \A k \in 1..Len(r.links) : r.links[k].style \in {"solid", "double"}
      /\ (\A i \in 1..Len(code) : Len(code[i]) = 0 \/ code[i][1] = W("//"))
           => r = [nodes |-> <<>>, links |-> <<>>]
      /\ \A i \in 1..Len(code) :
           IsShortLink(code[i]) => r = parseCode([code EXCEPT ![i] = <<>>])

\* A parsed Document with a link statement that has no target and a
\* declaration that has no label: a node without a label, and no link.
C15_Witness ==
  /\ last.op = "parse"
  /\ \E i \in 1..Len(code) : code[i] = <<W("link"), W("X")>>
  /\ \E k \in 1..Len(nodes) : nodes[k].label = Undefined
  /\ links = <<>>

\* The ids allocated by the lines before the one of the k-th node.
AllocatedBefore(ns, k) == {ns[j].id : j \in 1..(k - 1)}

\* C16: a declaration of ent, weak_ent, rel or ident_rel with label L on
\* line i has the id L when no earlier line of the parse allocated L, and
\* L_i otherwise; a spec or union line with no second token has the id
\* spec_i, or spec_i_i when spec_i is allocated; `ent X` on lines 0 and 1
\* gives the ids X and X_1.
C16_IdResolution ==
  LET ns == parseCode(code).nodes
  IN  /\ \A k \in 1..Len(ns) :
           LET index == ns[k].lineIndex
               parts == Parts(code[index + 1])
               suffix == "_" \o ToString(index)
           IN  /\ Command(parts) \in {"ent", "weak_ent", "rel", "ident_rel"} =>
                    ns[k].id = IF ns[k].label \in AllocatedBefore(ns, k)
                               THEN Template(ns[k].label) \o suffix
                               ELSE ns[k].label
               /\ (Command(parts) \in {"spec", "union"} /\ Len(parts) = 1) =>
                    ns[k].id = IF ("spec" \o suffix) \in AllocatedBefore(ns, k)
                               THEN "spec" \o suffix \o suffix
                               ELSE "spec" \o suffix
      /\ code = << <<W("ent"), W("X")>>, <<W("ent"), W("X")>> >> =>
           (ns[1].id = "X" /\ ns[2].id = "X_1")

\* A parsed Document in which a non-attribute declaration met its label
\* among the allocated ids, and one in which a bare spec met spec_i there.
C16_Witness ==
  /\ last.op = "parse"
  /\ \E k \in 2..Len(nodes) :
       /\ nodes[k].type \in {"entity", "specialization"}
       /\ \/ nodes[k].label \in AllocatedBefore(nodes, k)
          \/ "spec_1" \in AllocatedBefore(nodes, k)
       /\ nodes[k].id \in {"X_1", "spec_1_1"}

\* The k-th node of ns was declared with an explicit coordinate pair.
Placed(text, ns, k) == \E t \in 1..Len(text[ns[k].lineIndex + 1]) :
                         text[ns[k].lineIndex + 1][t].k = "c"

\* The number of declarations without coordinates among the first k nodes.
AutoRank(text, ns, k) == Cardinality({j \in 1..k : ~Placed(text, ns, j)})

\* The nodes of text are laid out in document order: explicit coordinates
\* as written, the others along the spiral, one position each.
LaidOutInOrder(text) ==
  LET ns == parseCode(text).nodes
  IN  \A k \in 1..Len(ns) :
        IF Placed(text, ns, k)
        THEN LET pair == text[ns[k].lineIndex + 1][COORD_REGEX(text[ns[k].lineIndex + 1])]
             IN  ns[k].x = 2 * pair.x /\ ns[k].y = 2 * pair.y
        ELSE /\ ns[k].x = 2 * SpiralTable[AutoRank(text, ns, k)][1]
             /\ ns[k].y = 2 * SpiralTable[AutoRank(text, ns, k)][2]

\* C17: the k-th declaration without coordinates is at the k-th spiral
\* position whatever its label and kind, and a declaration with
\* coordinates takes none; with a declaration without coordinates put in
\* front of the Document, every node placed by the spiral moves to the
\* next position and every node with coordinates stays where it is.
C17_SpiralOrder ==
  /\ LaidOutInOrder(code)
  /\ LET before == parseCode(code).nodes
         text == << <<W("rel"), W("Z")>> >> \o code
         after == parseCode(text).nodes
     IN  /\ LaidOutInOrder(text)
         /\ Len(after) = Len(before) + 1
         /\ \A k \in 1..Len(before) :
              IF Placed(code, before, k)
              THEN after[k + 1].x = before[k].x /\ after[k + 1].y = before[k].y
              ELSE /\ AutoRank(text, after, k + 1) = AutoRank(code, before, k) + 1
                   /\ <<after[k + 1].x, after[k + 1].y>> # <<before[k].x, before[k].y>>

\* A parsed Document whose first node has explicit coordinates and whose
\* second node is at the first spiral position.
C17_Witness ==
  /\ last.op = "parse"
  /\ Len(nodes) = 2
  /\ Placed(code, nodes, 1)
  /\ ~Placed(code, nodes, 2)
  /\ nodes[2].x = getDefaultPos(1).x
  /\ nodes[2].y = getDefaultPos(1).y

Markers == {W("[total]"), W("[double]")}

\* A line `link SRC DST ["LABEL"] [[total]|[double]]`.
IsLinkForm(line) ==
  /\ Len(line) \in 3..5
  /\ line[1].k = "w" /\ toLowerCase(line[1].s) = "link"
  /\ line[2].k = "w"
  /\ line[3].k = "w"
  /\ Len(line) = 4 => (line[4].k \in {"q", "qc"} \/ line[4] \in Markers)
  /\ Len(line) = 5 => (line[4].k \in {"q", "qc"} /\ line[5] \in Markers)

\* The link the statement stands for.
LinkOfForm(line) ==
  [source |-> line[2].s,
   target |-> line[3].s,
   label |-> IF Len(line) >= 4 /\ line[4].k \in {"q", "qc"} THEN line[4].s ELSE "",
   style |-> IF line[Len(line)] \in Markers THEN "double" ELSE "solid"]

\* The links of the first i lines of text.
LinksUpTo(text, i) == parseCode(SubSeq(text, 1, i)).links

\* C18: a line `link SRC DST ["LABEL"] [[total]|[double]]` adds exactly one
\* link, from its second token to its third, with the quoted text (or '')
\* for label and the style double exactly when it carries a marker; the
\* links of the result are in the order of their lines.
C18_LinkStatement ==
  \A i \in 1..Len(code) :
    /\ IsLinkForm(code[i]) =>
         LinksUpTo(code, i) = Append(LinksUpTo(code, i - 1), LinkOfForm(code[i]))
    /\ LinksUpTo(code, i - 1) = SubSeq(LinksUpTo(code, i), 1, Len(LinksUpTo(code, i - 1)))
    /\ LinksUpTo(code, Len(code)) = parseCode(code).links

\* A declaration whose third token is `->` and that has a fourth token.
IsShorthand(line) ==
  /\ ~IsSkipped(line)
  /\ Command(Parts(line)) \in NodeCommands \cup SpecCommands
  /\ Len(Parts(line)) >= 4
  /\ Parts(line)[3] = "->"

\* The id of the node declared on line i (one-based) of text.
IdOfLine(text, i) ==
  LET ns == parseCode(text).nodes
  IN  ns[CHOOSE k \in 1..Len(ns) : ns[k].lineIndex = i - 1].id

\* C19: a declaration `... -> OWNER` adds exactly one link, from OWNER to
\* the resolved id of the node of its line (label_index for an attribute),
\* solid for a node declaration and double for spec and union, whether
\* OWNER is the id of a node or not.
C19_Shorthand ==
  \A i \in 1..Len(code) :
    IsShorthand(code[i]) =>
      LET parts == Parts(code[i])
      IN  /\ LinksUpTo(code, i) =
               Append(LinksUpTo(code, i - 1),
                      [source |-> parts[4],
                       target |-> IdOfLine(code, i),
                       label |-> "",
                       style |-> IF Command(parts) \in SpecCommands
                                 THEN "double" ELSE "solid"])
          /\ Command(parts) \in AttributeCommands =>
               IdOfLine(code, i) = parts[2] \o "_" \o ToString(i - 1)

\* A parsed Document whose shorthand declaration collided with an earlier
\* id: the link goes to the suffixed id, not to the label.
C19_Witness ==
  /\ last.op = "parse"
  /\ Len(code) = 2
  /\ IsShorthand(code[2])
  /\ Len(nodes) = 2
  /\ nodes[2].type = "weak_entity"
  /\ nodes[2].label = nodes[1].id
  /\ links = << [source |-> "Y", target |-> nodes[2].id, label |-> "", style |-> "solid"] >>
  /\ nodes[2].id # nodes[2].label

\* A spec or union line without a discriminator: the bare command, or the
\* command followed by `-> SUPERCLASS_ID`.
OmitsDiscriminator(line) ==
  /\ ~IsSkipped(line)
  /\ Command(Parts(line)) \in SpecCommands
  /\ \/ Len(Parts(line)) = 1
     \/ Len(Parts(line)) = 3 /\ Parts(line)[2] = "->"

\* C20: a spec or union line without a discriminator gives a node whose
\* discriminator and label are d for spec and u for union, and in the form
\* `-> SUPERCLASS_ID` the double link from SUPERCLASS_ID to the node as well.
C20_OmittedDiscriminator ==
  \A i \in 1..Len(code) :
    OmitsDiscriminator(code[i]) =>
      LET parts == Parts(code[i])
          default == IF Command(parts) = "union" THEN "u" ELSE "d"
      IN  \E k \in 1..Len(parseCode(code).nodes) :
            LET n == parseCode(code).nodes[k]
            IN  /\ n.lineIndex = i - 1
                /\ n.type = IF Command(parts) = "union" THEN "union" ELSE "specialization"
                /\ n.meta = default
                /\ n.label = default
                /\ Len(parts) = 3 =>
                     LinksUpTo(code, i) =
                       Append(LinksUpTo(code, i - 1),
                              [source |-> parts[3], target |-> n.id,
                               label |-> "", style |-> "double"])

\* A step of handleMouseMove with a node being dragged.
Move == Truthy(draggedNodeId) /\ last'.op = "move"

\* C21: a pointer-move of a drag changes the x and y of one node, the one
\* with the dragged id, and nothing else: not the Document, the links, the
\* pending timers, any other node, nor the id, type, label, meta and
\* lineIndex of the dragged node.
C21_MoveFrame ==
  [][Move =>
       /\ code' = code
       /\ links' = links
       /\ timers' = timers
       /\ draggedNodeId' = draggedNodeId
       /\ Len(nodes') = Len(nodes)
       /\ \A i \in 1..Len(nodes) :
            /\ nodes[i].id # draggedNodeId => nodes'[i] = nodes[i]
            /\ nodes'[i] = [nodes[i] EXCEPT !.x = nodes'[i].x, !.y = nodes'[i].y]
       /\ Cardinality({i \in 1..Len(nodes) : nodes'[i] # nodes[i]}) <= 1]_vars

\* C22: while a node is being dragged the timer's parse does not run, and
\* the node list changes in the positions of the dragged node only.
C22_DragOwnsNodes ==
  [][(Truthy(draggedNodeId) /\ draggedNodeId' = draggedNodeId) =>
       /\ Len(timers') >= Len(timers)
       /\ Len(nodes') = Len(nodes)
       /\ \A i \in 1..Len(nodes) :
            \/ nodes'[i] = nodes[i]
            \/ /\ nodes[i].id = draggedNodeId
               /\ nodes'[i] = [nodes[i] EXCEPT !.x = nodes'[i].x, !.y = nodes'[i].y]]_vars

\* The dragged node's lineIndex is current: the parse of the Document as
\* it is declares the dragged id first on that line.
OriginLineCurrent ==
  /\ Dragged # 0
  /\ find(parseCode(code).nodes, draggedNodeId) # 0
  /\ parseCode(code).nodes[find(parseCode(code).nodes, draggedNodeId)].lineIndex
       = nodes[Dragged].lineIndex

\* Node k of before and of after differ in position at most.
SameButPosition(before, after, k) ==
  after[k] = [before[k] EXCEPT !.x = after[k].x, !.y = after[k].y]

SamePosition(before, after, j, k) ==
  after[k].x = before[j].x /\ after[k].y = before[j].y

\* The effect on the parse of a write-back to the line of node m: old and
\* new are the Document before and after it.
WriteBackEffect(old, new, m) ==
  LET before == parseCode(old).nodes
      after == parseCode(new).nodes
  IN  /\ Len(after) = Len(before)
      /\ parseCode(new).links = parseCode(old).links
      /\ \A k \in 1..Len(before) :
           /\ SameButPosition(before, after, k)
           /\ (k # m /\ Placed(old, before, k)) => SamePosition(before, after, k, k)
           /\ (k < m /\ ~Placed(old, before, k)) => SamePosition(before, after, k, k)
           /\ (k > m /\ ~Placed(old, before, k)) =>
                IF Placed(old, before, m)
                THEN SamePosition(before, after, k, k)
                ELSE \E j \in m..(k - 1) :
                       /\ ~Placed(old, before, j)
                       /\ AutoRank(old, before, j) = AutoRank(old, before, k) - 1
                       /\ SamePosition(before, after, j, k)

\* C23: a write-back through a current lineIndex leaves, in the parse of
\* the Document, every node's id, type, label, meta and lineIndex and the
\* list of links as they were, and the position of every other node with
\* explicit coordinates; when the moved node had no coordinates, each later
\* node without coordinates takes the spiral position of the node without
\* coordinates before it.
C23_WriteBackEffect ==
  [][(Release /\ OriginLineCurrent /\ code' # code) =>
       WriteBackEffect(code, code',
                       find(parseCode(code).nodes, draggedNodeId))]_vars

\* A release has given coordinates to the auto-placed node of line 0: the
\* node of line 1, still at the second spiral position in memory, is at
\* the first in the parse of the new text.
C23_Witness ==
  /\ last.op = "up_write"
  /\ last.wb.line = 0
  /\ Len(nodes) = 2
  /\ nodes[2].x = getDefaultPos(2).x
  /\ nodes[2].y = getDefaultPos(2).y
  /\ Len(parseCode(code).nodes) = 2
  /\ parseCode(code).nodes[2].x = getDefaultPos(1).x
  /\ parseCode(code).nodes[2].y = getDefaultPos(1).y

\* C24: with no timer pending and no node being dragged, nodes and links
\* are the parse of the Document.
C24_Quiescent ==
  (Len(timers) = 0 /\ ~Truthy(draggedNodeId)) =>
    /\ nodes = parseCode(code).nodes
    /\ links = parseCode(code).links

=============================================================================
